---- MODULE Spec2Model ----
(***************************************************************************)
(* State-machine model of the GIF capture pipeline of obamify              *)
(* (src/src/app/gif_recorder.rs): the GifRecorder controller, the readback *)
(* channel shared with the graphics driver, and the host that drives them. *)
(* With it, the two pure operations of src/src/app/calculate/util.rs that  *)
(* prepare the generation input: GenerationSettings::clone_with_new_id and *)
(* CropScale::apply.                                                       *)
(***************************************************************************)
EXTENDS Integers, Sequences, FiniteSets, TLC

\* ---------------------------------------------------------------- constants
GIF_RESOLUTION == 400
GIF_MAX_FRAMES == 140
GIF_MIN_FRAMES == 100
GIF_MAX_SIZE == 10 * 1024 * 1024

\* frame.buffer.len(): one palette index per pixel (pixel_count).
QuantizedLen == GIF_RESOLUTION * GIF_RESOLUTION

\* Bytes the encoder holds after Encoder::new and set_repeat: the 13 byte
\* header and screen descriptor, the 768 byte global colour table and the
\* 19 byte loop extension.
HeaderLen == 800

\* ------------------------------------------------------------------ bounds
\* Bytes one write_frame adds to the encoder output, the same for every frame
\* of a recording: a scene that compresses well (140 frames stay far below
\* the budget), one that reaches the budget between GIF_MIN_FRAMES and
\* GIF_MAX_FRAMES, and a noisy one that reaches it before GIF_MIN_FRAMES
\* (LZW with 9 to 12 bit codes grows 160000 noisy indices to about 1.3 times
\* their size).
SmallFrame == 1000
MidFrame == 75000
BigFrame == 210000
FrameSizes == {SmallFrame, MidFrame, BigFrame}

\* Recordings started and stop() calls made in one behaviour.
MaxStarts == 2
MaxStops == 1

\* ------------------------------------------------------------------- state
VARIABLES
    target,        \* build target: "native" or "wasm32" (cfg(target_arch))
    id,            \* GifRecorder.id
    status,        \* GifRecorder.status: [tag, msg]
    encoder,       \* GifRecorder.encoder: <<>> (None) or <<[len, frames, srcs]>>
    palette,       \* GifRecorder.palette: TRUE when Some
    frame_count,   \* GifRecorder.frame_count
    inflight,      \* GifRecorder.inflight: <<>> (None) or <<[st, epoch, seq]>>
    should_stop,   \* GifRecorder.should_stop (the private flag)
    rgba_buffer,   \* epoch of the frame last unpadded into rgba_buffer, 0 if none
    ret,           \* value returned by the last try_write_frame or finish call
    panicked,      \* "" while the process runs, else the unwrap it died on
    dropped,       \* epochs of readbacks dropped while their map callback is pending
    saves,         \* epochs of the wasm32 save tasks spawned and not yet finished
    epoch,         \* number of recordings started so far
    stopped,       \* epochs of the recordings during which stop() was called
    reported,      \* a frame was ever rejected for the size budget
    overrun,       \* a frame was rejected for the size budget since the last start
    submitted,     \* a readback was submitted since the last start
    flag_set,      \* the driver set a readiness flag since the last start
    frame_bytes,   \* compressed size of the frames of the scene being recorded
    stops,         \* number of stop() calls made
    collected,     \* ready readbacks collected since the last start, counted
                   \* until a frame is rejected for the size budget
    settings,      \* util.rs: a GenerationSettings and its successive clones
    crop           \* util.rs: the arguments of CropScale::apply and its result

vars == <<target, id, status, encoder, palette, frame_count, inflight,
          should_stop, rgba_buffer, ret, panicked, dropped, saves, epoch,
          stopped, reported, overrun, submitted, flag_set, frame_bytes,
          stops, collected, settings, crop>>

recorder == <<id, status, encoder, palette, frame_count, inflight,
              should_stop, rgba_buffer>>
ghosts == <<epoch, stopped, reported, overrun, submitted, flag_set,
            frame_bytes, stops, collected>>
util == <<settings, crop>>

Alive == panicked = ""

None == <<>>
Some(x) == <<x>>

Min(a, b) == IF a < b THEN a ELSE b
Max(a, b) == IF a > b THEN a ELSE b

GifStatus(tag, msg) == [tag |-> tag, msg |-> msg]
StatusNone == GifStatus("None", "")
Recording == GifStatus("Recording", "")
Complete == GifStatus("Complete", "")
Error(msg) == GifStatus("Error", msg)

\* An in-flight readback: the state of its readiness flag, and when it was
\* submitted: the recording, and the frames the encoder held by then.
InFlight(st) ==
    [st |-> st, epoch |-> epoch,
     seq |-> IF encoder = None THEN 0 ELSE encoder[1].frames]

\* GifStatus::is_recording / GifStatus::not_recording
is_recording == status = Recording
not_recording == status = StatusNone

\* GifRecorder::no_inflight
no_inflight == inflight = None

\* should_stop() without the minimum-frames floor.
ShouldStop_NoFloor ==
    IF frame_count >= GIF_MAX_FRAMES THEN TRUE ELSE should_stop

\* should_stop() with the hard cap off by one.
ShouldStop_CapOffByOne ==
    IF frame_count < GIF_MIN_FRAMES THEN FALSE
    ELSE IF frame_count > GIF_MAX_FRAMES THEN TRUE
    ELSE should_stop

\* GifRecorder::should_stop()
ShouldStop ==
    IF frame_count < GIF_MIN_FRAMES THEN FALSE
    ELSE IF frame_count >= GIF_MAX_FRAMES THEN TRUE
    ELSE should_stop

\* GifRecorder::new
new ==
    /\ target \in {"native", "wasm32"}
    /\ id = 0
    /\ status = StatusNone
    /\ encoder = None
    /\ palette = FALSE
    /\ frame_count = 0
    /\ inflight = None
    /\ should_stop = FALSE
    /\ rgba_buffer = 0
    /\ ret = "none"
    /\ panicked = ""
    /\ dropped = {}
    /\ saves = {}
    /\ epoch = 0
    /\ stopped = {}
    /\ reported = FALSE
    /\ overrun = FALSE
    /\ submitted = FALSE
    /\ flag_set = FALSE
    /\ frame_bytes = 0
    /\ stops = 0
    /\ collected = 0

\* The recorder after construction; no generation input is being prepared.
Init ==
    /\ new
    /\ settings = <<>>
    /\ crop = None

\* ------------------------------------------------------- recorder operations

\* init_encoder without the reset of frame_count.
init_encoder_KeepsCount ==
    /\ palette' = TRUE
    /\ encoder' = Some([len |-> HeaderLen, frames |-> 0, srcs |-> {}])
    /\ status' = Recording
    /\ UNCHANGED <<id, frame_count, inflight, should_stop, rgba_buffer>>

\* GifRecorder::init_encoder. The encoder writes into a Vec and the colour
\* map has 256 entries, so neither Encoder::new nor set_repeat can fail.
init_encoder ==
    /\ palette' = TRUE
    /\ encoder' = Some([len |-> HeaderLen, frames |-> 0, srcs |-> {}])
    /\ frame_count' = 0
    /\ status' = Recording
    /\ UNCHANGED <<id, inflight, should_stop, rgba_buffer>>

\* ObamifyApp::get_color_image_data: submit the copy, start the map, keep the
\* staging buffer and its readiness flag as the in-flight readback.
get_color_image_data ==
    /\ inflight' = Some(InFlight("pending"))
    /\ dropped' = IF inflight # None /\ inflight[1].st = "pending"
                  THEN dropped \cup {inflight[1].epoch} ELSE dropped
    /\ UNCHANGED <<id, status, encoder, palette, frame_count, should_stop,
                   rgba_buffer>>

\* GifRecorder::poll_inflight returns true: a readback is in flight and its
\* readiness flag is set.
poll_inflight == inflight # None /\ inflight[1].st = "ready"

\* try_write_frame whose poll_inflight leaves the collected readback in flight.
try_write_frame_KeepsInflight(bytes, write_ok) ==
    IF ~poll_inflight
    THEN /\ ret' = "Ok(false)"
         /\ UNCHANGED <<inflight, rgba_buffer, encoder, should_stop, panicked>>
    ELSE /\ rgba_buffer' = inflight[1].epoch
         /\ inflight' = inflight
         /\ IF encoder = None
            THEN /\ ret' = "Err(No encoder)"
                 /\ UNCHANGED <<encoder, should_stop, panicked>>
            ELSE IF encoder[1].len + QuantizedLen + 32 > GIF_MAX_SIZE
            THEN /\ should_stop' = TRUE
                 /\ ret' = "Ok(true)"
                 /\ UNCHANGED <<encoder, panicked>>
            ELSE IF write_ok
            THEN /\ encoder' = Some([len |-> encoder[1].len + bytes,
                                     frames |-> encoder[1].frames + 1,
                                     srcs |-> encoder[1].srcs \cup {inflight[1].epoch}])
                 /\ ret' = "Ok(true)"
                 /\ UNCHANGED <<should_stop, panicked>>
            ELSE /\ ret' = "Err(write)"
                 /\ UNCHANGED <<encoder, should_stop, panicked>>

\* try_write_frame that skips the frame silently when the encoder is missing.
try_write_frame_SkipsNoEncoder(bytes, write_ok) ==
    IF ~poll_inflight
    THEN /\ ret' = "Ok(false)"
         /\ UNCHANGED <<inflight, rgba_buffer, encoder, should_stop, panicked>>
    ELSE /\ rgba_buffer' = inflight[1].epoch
         /\ inflight' = None
         /\ IF encoder = None
            THEN /\ ret' = "Ok(false)"
                 /\ UNCHANGED <<encoder, should_stop, panicked>>
            ELSE IF encoder[1].len + QuantizedLen + 32 > GIF_MAX_SIZE
            THEN /\ should_stop' = TRUE
                 /\ ret' = "Ok(true)"
                 /\ UNCHANGED <<encoder, panicked>>
            ELSE IF write_ok
            THEN /\ encoder' = Some([len |-> encoder[1].len + bytes,
                                     frames |-> encoder[1].frames + 1,
                                     srcs |-> encoder[1].srcs \cup {inflight[1].epoch}])
                 /\ ret' = "Ok(true)"
                 /\ UNCHANGED <<should_stop, panicked>>
            ELSE /\ ret' = "Err(write)"
                 /\ UNCHANGED <<encoder, should_stop, panicked>>

\* try_write_frame that compares the encoder output alone with the limit,
\* leaving the frame being added out of the projection.
try_write_frame_NoProjection(bytes, write_ok) ==
    IF ~poll_inflight
    THEN /\ ret' = "Ok(false)"
         /\ UNCHANGED <<inflight, rgba_buffer, encoder, should_stop, panicked>>
    ELSE /\ rgba_buffer' = inflight[1].epoch
         /\ inflight' = None
         /\ IF encoder = None
            THEN /\ ret' = "Err(No encoder)"
                 /\ UNCHANGED <<encoder, should_stop, panicked>>
            ELSE IF encoder[1].len > GIF_MAX_SIZE
            THEN /\ should_stop' = TRUE
                 /\ ret' = "Ok(true)"
                 /\ UNCHANGED <<encoder, panicked>>
            ELSE IF write_ok
            THEN /\ encoder' = Some([len |-> encoder[1].len + bytes,
                                     frames |-> encoder[1].frames + 1,
                                     srcs |-> encoder[1].srcs \cup {inflight[1].epoch}])
                 /\ ret' = "Ok(true)"
                 /\ UNCHANGED <<should_stop, panicked>>
            ELSE /\ ret' = "Err(write)"
                 /\ UNCHANGED <<encoder, should_stop, panicked>>

\* GifRecorder::try_write_frame, with the bytes the frame compresses to and
\* whether write_frame succeeds. frame_count and status are the caller's.
try_write_frame(bytes, write_ok) ==
    IF ~poll_inflight
    THEN /\ ret' = "Ok(false)"
         /\ UNCHANGED <<inflight, rgba_buffer, encoder, should_stop, panicked>>
    ELSE /\ rgba_buffer' = inflight[1].epoch
         /\ inflight' = None
         /\ IF encoder = None
            THEN /\ ret' = "Err(No encoder)"
                 /\ UNCHANGED <<encoder, should_stop, panicked>>
            ELSE IF ~palette
            THEN /\ panicked' = "palette.unwrap()"
                 /\ UNCHANGED <<encoder, should_stop, ret>>
            ELSE IF encoder[1].len + QuantizedLen + 32 > GIF_MAX_SIZE
            THEN /\ should_stop' = TRUE
                 /\ ret' = "Ok(true)"
                 /\ UNCHANGED <<encoder, panicked>>
            ELSE IF write_ok
            THEN /\ encoder' = Some([len |-> encoder[1].len + bytes,
                                     frames |-> encoder[1].frames + 1,
                                     srcs |-> encoder[1].srcs \cup {inflight[1].epoch}])
                 /\ ret' = "Ok(true)"
                 /\ UNCHANGED <<should_stop, panicked>>
            ELSE /\ ret' = "Err(write)"
                 /\ UNCHANGED <<encoder, should_stop, panicked>>

\* GifRecorder::finish, with what the save dialog and the file write do:
\* "cancel" (dialog dismissed), "saved", "ioerr" (std::fs::write fails).
finish(dialog) ==
    IF encoder = None
    THEN /\ panicked' = "encoder.take().unwrap()"
         /\ UNCHANGED <<recorder, ret, saves>>
    ELSE /\ encoder' = None
         /\ UNCHANGED <<id, palette, frame_count, inflight, should_stop, rgba_buffer>>
         /\ IF status # Recording
            THEN /\ status' = Error("Something weird happened")
                 /\ ret' = "true"
                 /\ UNCHANGED <<panicked, saves>>
            ELSE IF target = "native"
            THEN CASE dialog = "cancel" ->
                        /\ ret' = "false"
                        /\ UNCHANGED <<status, panicked, saves>>
                   [] dialog = "saved" ->
                        /\ status' = Complete
                        /\ ret' = "true"
                        /\ UNCHANGED <<panicked, saves>>
                   [] OTHER ->
                        /\ panicked' = "fs::write(..).unwrap()"
                        /\ UNCHANGED <<status, ret, saves>>
            ELSE /\ status' = StatusNone
                 /\ saves' = saves \cup {epoch}
                 /\ ret' = "true"
                 /\ UNCHANGED panicked

\* stop() that bumps id only when a recording was running.
stop_BumpsWhenRecording ==
    /\ status' = StatusNone
    /\ encoder' = None
    /\ palette' = FALSE
    /\ frame_count' = 0
    /\ inflight' = None
    /\ id' = IF status = Recording THEN id + 1 ELSE id
    /\ UNCHANGED <<should_stop, rgba_buffer>>

\* stop() that leaves the in-flight readback in place.
stop_KeepsInflight ==
    /\ status' = StatusNone
    /\ encoder' = None
    /\ palette' = FALSE
    /\ frame_count' = 0
    /\ id' = id + 1
    /\ UNCHANGED <<inflight, should_stop, rgba_buffer>>

\* GifRecorder::stop
stop ==
    /\ status' = StatusNone
    /\ encoder' = None
    /\ palette' = FALSE
    /\ frame_count' = 0
    /\ inflight' = None
    /\ id' = id + 1
    /\ UNCHANGED <<should_stop, rgba_buffer>>

\* ------------------------------------------------------------ the host side

\* The host starts a recording from status None.
HostStart ==
    /\ Alive
    /\ not_recording
    /\ epoch < MaxStarts
    /\ init_encoder
    /\ epoch' = epoch + 1
    /\ overrun' = FALSE
    /\ submitted' = FALSE
    /\ flag_set' = FALSE
    /\ frame_bytes' \in FrameSizes
    /\ collected' = 0
    /\ UNCHANGED <<util, target, ret, panicked, dropped, saves, stopped, reported,
                   stops>>

\* Host tick, no readback in flight and no stop condition: submit a readback.
HostSubmit ==
    /\ Alive
    /\ is_recording
    /\ no_inflight
    /\ ~ShouldStop
    /\ get_color_image_data
    /\ submitted' = TRUE
    /\ UNCHANGED <<util, target, ret, panicked, saves, epoch, stopped, reported,
                   overrun, flag_set, frame_bytes, stops, collected>>

\* try_write_frame collected a frame and left it out of the encoder for the
\* size budget: it returned Ok(true) with the encoder output as it was.
Rejected == poll_inflight /\ ret' = "Ok(true)" /\ encoder' = encoder

\* Host tick: try_write_frame, then count the frame if one was appended and
\* turn an error into the Error status.
HostTick ==
    /\ Alive
    /\ is_recording
    /\ \E write_ok \in BOOLEAN : try_write_frame(frame_bytes, write_ok)
    /\ frame_count' = IF encoder' # encoder THEN frame_count + 1 ELSE frame_count
    /\ status' = IF ret' \in {"Err(No encoder)", "Err(write)"}
                 THEN Error(ret') ELSE status
    /\ reported' = (reported \/ Rejected)
    /\ overrun' = (overrun \/ Rejected)
    /\ collected' = IF poll_inflight /\ ~overrun THEN collected + 1 ELSE collected
    /\ UNCHANGED <<util, target, id, palette, dropped, saves, epoch, stopped,
                   submitted, flag_set, frame_bytes, stops>>

\* The user ends the recording: finish(name) in Recording.
UserFinish ==
    /\ Alive
    /\ is_recording
    /\ \E dialog \in {"cancel", "saved", "ioerr"} : finish(dialog)
    /\ UNCHANGED <<util, target, dropped, ghosts>>

\* stop() from any status. The tallies kept since the last start end with
\* the recording.
UserStop ==
    /\ Alive
    /\ id < MaxStops
    /\ stop
    /\ dropped' = IF inflight # None /\ inflight[1].st = "pending"
                  THEN dropped \cup {inflight[1].epoch} ELSE dropped
    /\ stopped' = IF epoch > 0 THEN stopped \cup {epoch} ELSE stopped
    /\ stops' = stops + 1
    /\ overrun' = FALSE
    /\ submitted' = FALSE
    /\ flag_set' = FALSE
    /\ collected' = 0
    /\ frame_bytes' = 0
    /\ UNCHANGED <<util, target, ret, panicked, saves, epoch, reported>>

\* ---------------------------------------------------------- graphics driver

\* map_async callback with Ok: the release store of the readiness flag.
MapReady ==
    /\ Alive
    /\ inflight # None
    /\ inflight[1].st = "pending"
    /\ inflight' = Some([inflight[1] EXCEPT !.st = "ready"])
    /\ flag_set' = TRUE
    /\ UNCHANGED <<util, target, id, status, encoder, palette, frame_count,
                   should_stop, rgba_buffer, ret, panicked, dropped, saves,
                   epoch, stopped, reported, overrun, submitted, frame_bytes,
                   stops, collected>>

\* map_async callback with Err: the flag stays unset.
MapFailed ==
    /\ Alive
    /\ inflight # None
    /\ inflight[1].st = "pending"
    /\ inflight' = Some([inflight[1] EXCEPT !.st = "failed"])
    /\ UNCHANGED <<util, target, id, status, encoder, palette, frame_count,
                   should_stop, rgba_buffer, ret, panicked, dropped, saves,
                   ghosts>>

\* The callback of a readback the recorder has dropped: it stores into the
\* flag the Arc keeps alive; no recorder field changes.
DroppedCallback ==
    /\ Alive
    /\ \E e \in dropped : dropped' = dropped \ {e}
    /\ UNCHANGED <<util, target, recorder, ret, panicked, saves, ghosts>>

\* wasm32: the spawned save task, the user having picked a file: it writes
\* Complete through the raw status pointer.
SaveTaskComplete ==
    /\ Alive
    /\ \E e \in saves : saves' = saves \ {e}
    /\ status' = Complete
    /\ UNCHANGED <<util, target, id, encoder, palette, frame_count, inflight,
                   should_stop, rgba_buffer, ret, panicked, dropped, ghosts>>

\* wasm32: the spawned save task, the dialog dismissed: it ends silently.
SaveTaskDismissed ==
    /\ Alive
    /\ \E e \in saves : saves' = saves \ {e}
    /\ UNCHANGED <<util, target, recorder, ret, panicked, dropped, ghosts>>

Next ==
    \/ HostStart
    \/ HostSubmit
    \/ HostTick
    \/ UserFinish
    \/ UserStop
    \/ MapReady
    \/ MapFailed
    \/ DroppedCallback
    \/ SaveTaskComplete
    \/ SaveTaskDismissed

Spec == Init /\ [][Next]_vars

\* One recording left to run: the host ticks on every rendered frame and the
\* driver answers every map_async, so the host's steps and the callback are
\* weakly fair; nobody stops or finishes the recording.
RunNext ==
    \/ HostStart
    \/ HostSubmit
    \/ HostTick
    \/ MapReady
    \/ MapFailed

RunSpec ==
    /\ Init
    /\ [][RunNext]_vars
    /\ WF_vars(HostStart)
    /\ WF_vars(HostSubmit)
    /\ WF_vars(HostTick)
    /\ WF_vars(MapReady \/ MapFailed)

\* The same recording with a driver that maps every readback successfully.
OkRunNext ==
    \/ HostStart
    \/ HostSubmit
    \/ HostTick
    \/ MapReady

OkRunSpec ==
    /\ Init
    /\ [][OkRunNext]_vars
    /\ WF_vars(HostStart)
    /\ WF_vars(HostSubmit)
    /\ WF_vars(HostTick)
    /\ WF_vars(MapReady)

\* --------------------------------------------------------- calculate/util.rs
\* Strings are sequences of characters; the names fed to clone_with_new_id
\* are the sequences over Chars up to MaxNameLen, and two longer ones around
\* u32::MAX.

Chars == {"a", " ", "v", "+", "1", "9"}

MaxNameLen == 4
MaxCalls == 2

Digits == <<"0", "1", "2", "3", "4", "5", "6", "7", "8", "9">>
IsDigit(c) == \E i \in 1..10 : Digits[i] = c
DigitVal(c) == (CHOOSE i \in 1..10 : Digits[i] = c) - 1

\* A u32 is kept as its decimal numeral without leading zeros (the values
\* around u32::MAX are beyond the model checker's integers).
U32_MAX == <<"4", "2", "9", "4", "9", "6", "7", "2", "9", "5">>

RECURSIVE StripZeros(_)
StripZeros(d) ==
    IF Len(d) > 1 /\ d[1] = "0" THEN StripZeros(Tail(d)) ELSE d

RECURSIVE LexGreater(_, _)
LexGreater(a, b) ==
    IF a = <<>> THEN FALSE
    ELSE IF a[1] # b[1] THEN DigitVal(a[1]) > DigitVal(b[1])
    ELSE LexGreater(Tail(a), Tail(b))

\* a > b, for numerals without leading zeros
Greater(a, b) ==
    \/ Len(a) > Len(b)
    \/ Len(a) = Len(b) /\ LexGreater(a, b)

\* the numeral of n + 1
RECURSIVE Succ(_)
Succ(d) ==
    IF d = <<>> THEN <<"1">>
    ELSE IF d[Len(d)] = "9" THEN Succ(SubSeq(d, 1, Len(d) - 1)) \o <<"0">>
    ELSE SubSeq(d, 1, Len(d) - 1) \o <<Digits[DigitVal(d[Len(d)]) + 2]>>

Ok(v) == [ok |-> TRUE, val |-> v]
Err == [ok |-> FALSE, val |-> <<>>]

\* str::parse::<u32>: an optional "+", then one or more ASCII digits, the
\* value no more than u32::MAX.
parse_u32(src) ==
    LET digits == IF src # <<>> /\ src[1] = "+" THEN Tail(src) ELSE src
    IN  IF digits = <<>> THEN Err
        ELSE IF \E i \in 1..Len(digits) : ~IsDigit(digits[i]) THEN Err
        ELSE IF Greater(StripZeros(digits), U32_MAX) THEN Err
        ELSE Ok(StripZeros(digits))

\* str::rfind(" v"): the position of the last " v", 0 for None.
rfind_v(name) ==
    LET P == {p \in 1..(Len(name) - 1) : name[p] = " " /\ name[p + 1] = "v"}
    IN  IF P = {} THEN 0 ELSE CHOOSE p \in P : \A q \in P : q <= p

\* CropScale::identity, in eighths
identity == [x |-> 0, y |-> 0, scale |-> 8]

\* GenerationSettings::default
default(uuid, name) ==
    [id |-> uuid,
     name |-> name,
     proximity_importance |-> 13,
     algorithm |-> "Genetic",
     sidelen |-> 128,
     custom_target |-> None,
     target_crop_scale |-> identity,
     source_crop_scale |-> identity]

\* Uuid::new_v4 draws from Uuids a value that no settings holds yet.
Uuids == 0..MaxCalls

\* GenerationSettings::clone_with_new_id. version + 1 overflows at u32::MAX:
\* a build with overflow checks panics, one without wraps to 0.
clone_with_new_id ==
    /\ Alive
    /\ settings # <<>>
    /\ Len(settings) <= MaxCalls
    /\ LET self == settings[Len(settings)]
           v_pos == rfind_v(self.name)
           potential_version == SubSeq(self.name, v_pos + 2, Len(self.name))
           version == parse_u32(potential_version)
           base_name == SubSeq(self.name, 1, v_pos - 1)
           used == {settings[i].id : i \in 1..Len(settings)}
       IN  \E uuid \in Uuids \ used :
             IF v_pos # 0 /\ version.ok
             THEN IF version.val = U32_MAX
                  THEN \/ /\ panicked' = "attempt to add with overflow"
                          /\ settings' = settings
                       \/ /\ settings' = Append(settings,
                                 [self EXCEPT !.id = uuid,
                                        !.name = base_name \o <<" ", "v", "0">>])
                          /\ panicked' = panicked
                  ELSE /\ settings' = Append(settings,
                              [self EXCEPT !.id = uuid,
                                     !.name = base_name \o <<" ", "v">>
                                                  \o Succ(version.val)])
                       /\ panicked' = panicked
             ELSE /\ settings' = Append(settings,
                         [self EXCEPT !.id = uuid,
                                !.name = self.name \o <<" ", "v", "2">>])
                  /\ panicked' = panicked
    /\ UNCHANGED <<target, recorder, ret, dropped, saves, ghosts, crop>>

Names ==
    UNION {[1..n -> Chars] : n \in 0..MaxNameLen}
        \cup {<<"a", " ", "v">> \o U32_MAX, <<"a", " ", "v">> \o Succ(U32_MAX)}

CloneInit ==
    /\ new
    /\ target = "native"
    /\ crop = None
    /\ \E name \in Names : settings = <<default(0, name)>>

CloneNext == clone_with_new_id

CloneSpec == CloneInit /\ [][CloneNext]_vars

\* ------------------------------------------------------- CropScale::apply
\* The f32 fields x, y and scale of a CropScale are kept in eighths.

MaxDim == 3

\* An image wider than the 24 bits of an f32 significand (50 MB of RGB at
\* height 1).
WideWidth == 2^24 + 3

\* The unit in the last place of the f32 values around q, for a q counted in
\* units in which every f32 below 2^24 units is a whole number.
RECURSIVE Ulp(_, _)
Ulp(q, u) == IF q < 2^24 * u THEN u ELSE Ulp(q, 2 * u)

\* Rounding of q >= 0 to the 24-bit significand of an f32, ties to even.
round24(q) ==
    LET u == Ulp(q, 1)
        lo == (q \div u) * u
    IN  IF q = lo THEN q
        ELSE IF 2 * (q - lo) < u THEN lo
        ELSE IF 2 * (q - lo) > u THEN lo + u
        ELSE IF (lo \div u) % 2 = 0 THEN lo ELSE lo + u

\* f32::clamp(-1.0, 1.0), in eighths
clamp(v) == Max(-8, Min(v, 8))

\* imageops::crop_imm: the rectangle is cut down to the image's bounds.
crop_imm(w, h, x, y, width, height) ==
    LET cx == Min(x, w)
        cy == Min(y, h)
    IN  [x |-> cx, y |-> cy,
         width |-> Min(width, w - cx), height |-> Min(height, h - cy)]

\* The dimensions of what CropScale::apply returns and the square it cropped.
\* (base_side / s).floor() is the floor of the exact quotient: base_side is
\* below 2^20 for every image of Images, where the rounding of the quotient
\* is under 2^-4 and a quotient by s eighths, s <= 24, that is not whole lies
\* at least 1/24 under the next whole number.
apply_result(self, w, h, sidelen) ==
    LET s == Max(self.scale, 8)
        base_side == round24(Min(w, h))
        crop_side == Min(Min(Max((base_side * 8) \div s, 1), round24(w)),
                         round24(h))
        max_x_off == Max(round24(round24(w) - crop_side), 0)
        max_y_off == Max(round24(round24(h) - crop_side), 0)
        xn == clamp(self.x) + 8
        yn == clamp(self.y) + 8
        x0 == round24(xn * max_x_off) \div 16
        y0 == round24(yn * max_y_off) \div 16
        cs == crop_side
        cropped == crop_imm(w, h, x0, y0, cs, cs)
    IN  [x0 |-> x0, y0 |-> y0, cs |-> cs,
         dimensions |-> IF cs = sidelen
                        THEN <<cropped.width, cropped.height>>
                        ELSE <<sidelen, sidelen>>]

\* CropScale::apply
apply ==
    /\ Alive
    /\ crop # None
    /\ crop[1].out = None
    /\ crop' = Some([crop[1] EXCEPT
                       !.out = Some(apply_result(crop[1].self, crop[1].w,
                                                 crop[1].h, crop[1].sidelen))])
    /\ UNCHANGED <<target, recorder, ret, panicked, dropped, saves, ghosts,
                   settings>>

\* Fields of a CropScale, in eighths: in and out of their ranges.
Offsets == {-12, -8, -4, 0, 8, 12}
Scales == {4, 8, 12, 16, 24}

Sides == 1..MaxDim
Images ==
    ((Sides \cup {200, 400}) \X (Sides \cup {200, 400}))
        \cup ({WideWidth} \X Sides)

CropInit ==
    /\ new
    /\ target = "native"
    /\ settings = <<>>
    /\ \E img \in Images, sidelen \in Sides \cup {100},
          x \in Offsets, y \in Offsets, scale \in Scales :
          crop = Some([self |-> [x |-> x, y |-> y, scale |-> scale],
                       w |-> img[1], h |-> img[2], sidelen |-> sidelen,
                       out |-> None])

CropNext == apply

CropSpec == CropInit /\ [][CropNext]_vars

\* ------------------------------------------------------------------ claims

\* C1: should_stop() follows the fixed precedence: false below GIF_MIN_FRAMES
\* even after a SizeLimitReached report, true from GIF_MAX_FRAMES on, and in
\* between true exactly when a frame was ever rejected for the size budget.
C1_StopPrecedence ==
    /\ frame_count < GIF_MIN_FRAMES => ~ShouldStop
    /\ frame_count >= GIF_MAX_FRAMES => ShouldStop
    /\ (GIF_MIN_FRAMES <= frame_count /\ frame_count < GIF_MAX_FRAMES)
          => (ShouldStop <=> reported)

\* The size limit was reported below the minimum-frames floor.
C1_Witness ==
    /\ is_recording
    /\ reported /\ overrun
    /\ frame_count > 0 /\ frame_count < GIF_MIN_FRAMES
    /\ ~ShouldStop

\* C2: frame_count equals the number of frames appended to the encoder since
\* the last start: a tick that appends a frame adds exactly 1 to it, a tick
\* whose frame is rejected for the size budget leaves it unchanged.
C2_CountsAppendedFrames ==
    /\ [](encoder # None => frame_count = encoder[1].frames)
    /\ [][HostTick =>
            /\ (encoder' # encoder => frame_count' = frame_count + 1)
            /\ (Rejected => frame_count' = frame_count)]_vars

\* A frame was rejected after at least GIF_MIN_FRAMES frames had been
\* appended and counted: the count is the number appended.
C2_Witness ==
    /\ is_recording /\ encoder # None
    /\ overrun
    /\ frame_count = encoder[1].frames
    /\ frame_count >= GIF_MIN_FRAMES /\ frame_count < GIF_MAX_FRAMES

\* C3: after start and N ready readbacks with no size overrun, frame_count is
\* min(N, GIF_MAX_FRAMES): each is appended and counted up to the 140th and
\* none is appended after it.
C3_CountIsMinOfReadbacks ==
    /\ frame_count <= GIF_MAX_FRAMES
    /\ (is_recording /\ encoder # None /\ ~overrun) =>
          /\ frame_count = Min(collected, GIF_MAX_FRAMES)
          /\ encoder[1].frames = Min(collected, GIF_MAX_FRAMES)
          /\ collected <= GIF_MAX_FRAMES

\* 140 ready readbacks were collected and counted without a size overrun.
C3_Witness ==
    /\ is_recording /\ encoder # None /\ ~overrun
    /\ collected = GIF_MAX_FRAMES
    /\ frame_count = GIF_MAX_FRAMES

\* C4: after start, while the driver has set no readiness flag, every
\* try_write_frame returns false, frame_count stays 0, nothing is appended,
\* and a readback is in flight iff one was submitted.
C4_NothingCollectedUntilReady ==
    /\ [][(HostTick /\ ~flag_set) => ret' = "Ok(false)"]_vars
    /\ []((is_recording /\ ~flag_set) =>
            /\ frame_count = 0
            /\ (encoder # None => encoder[1].frames = 0)
            /\ (inflight # None <=> submitted))

\* C5: stop() from any state leaves status None, no palette, no encoder, no
\* in-flight readback and id one greater; nothing else changes id, so id is
\* the number of stop() calls.
C5_StopResetsAndBumpsId ==
    /\ [](id = stops)
    /\ [][/\ UserStop =>
                /\ status' = StatusNone
                /\ ~palette'
                /\ encoder' = None
                /\ inflight' = None
                /\ id' = id + 1
          /\ ~UserStop => id' = id]_vars

\* stop() was called with a readback in flight.
C5_Witness ==
    /\ id = 1 /\ stops = 1
    /\ status = StatusNone
    /\ dropped # {}

\* C6: a readback in flight when stop() is called is dropped uncollected:
\* no readback of a stopped recording stays in flight, no frame of one is in
\* any encoder, and the recording that follows a stopped one holds only
\* frames of readbacks submitted after its own start.
C6_StoppedReadbackIsDropped ==
    /\ inflight # None => inflight[1].epoch \notin stopped
    /\ encoder # None => encoder[1].srcs \cap stopped = {}
    /\ (encoder # None /\ (epoch - 1) \in stopped) => encoder[1].srcs \subseteq {epoch}

\* The callback of a readback dropped by stop() is still pending while the
\* next recording has appended a frame.
C6_Witness ==
    /\ (epoch - 1) \in stopped
    /\ (epoch - 1) \in dropped
    /\ encoder # None /\ encoder[1].frames > 0
    /\ rgba_buffer = epoch

\* C7: when the save dialog is dismissed, finish returns false and leaves the
\* recorder in Recording with its recording intact, so a later finish can
\* still finalize the encoder instead of finding none.
C7_CancelKeepsRecording ==
    /\ [][(UserFinish /\ Alive' /\ ret' = "false") =>
            (status' = Recording /\ encoder' # None)]_vars
    /\ [](panicked # "encoder.take().unwrap()")

\* C8: in Recording, a collected readback that meets a missing encoder or a
\* failing write_frame turns the status into Error(message); the recorder is
\* not left in Recording.
C8_WriteFailureIsError ==
    [][(HostTick /\ poll_inflight /\ (encoder = None \/ ret' = "Err(write)")) =>
            (status'.tag = "Error" /\ status'.msg # "" /\ status' # Recording)]_vars

\* A readback was collected with no encoder and the status is Error.
C8_Witness ==
    /\ status = Error("Err(No encoder)")
    /\ encoder = None
    /\ inflight = None
    /\ rgba_buffer = epoch

\* C9: a failing write of the saved file is reported as the Error status,
\* never as a crash of the process.
C9_SaveFailureIsNotACrash == panicked # "fs::write(..).unwrap()"

\* C10: a collected frame whose projected size exceeds GIF_MAX_SIZE is not
\* written, the encoder output is unchanged, the size-limit flag is raised
\* and the status stays Recording; a frame within the limit is written and
\* the flag is left as it was.
C10_SizeBudget ==
    [][(HostTick /\ poll_inflight /\ encoder # None /\ ret' = "Ok(true)") =>
          IF encoder[1].len + QuantizedLen + 32 > GIF_MAX_SIZE
          THEN /\ encoder' = encoder
               /\ should_stop'
               /\ status' = Recording
          ELSE /\ encoder' # None
               /\ encoder'[1].frames = encoder[1].frames + 1
               /\ encoder'[1].len = encoder[1].len + frame_bytes
               /\ should_stop' = should_stop]_vars

\* A frame was rejected: the encoder output plus one frame is over the
\* limit, the flag is up and the recorder is still Recording.
C10_Witness ==
    /\ is_recording /\ encoder # None
    /\ overrun /\ should_stop
    /\ encoder[1].len + QuantizedLen + 32 > GIF_MAX_SIZE
    /\ encoder[1].frames = frame_count

\* C11: a readback whose mapping failed costs the recording one frame only:
\* while the recording goes on, the failed readback is eventually replaced
\* (collected or dropped) so that a later frame can be submitted.
C11_FailedReadbackIsSkipped ==
    (is_recording /\ inflight # None /\ inflight[1].st = "failed")
        ~> (~is_recording \/ inflight = None \/ inflight[1].st # "failed")

\* C12: one readback is in flight at a time and frames are appended in the
\* order of their submission, none twice: a readback in flight is never
\* replaced by another, and the frame appended as number k+1 comes from a
\* readback submitted when the encoder held k frames (so after the k-th was
\* appended), or, as the first frame, from one submitted before the start.
C12_FramesInSubmissionOrder ==
    [][/\ (inflight # None /\ inflight' # None /\ inflight' # inflight) =>
              /\ inflight[1].st = "pending"
              /\ inflight'[1].epoch = inflight[1].epoch
              /\ inflight'[1].seq = inflight[1].seq
       /\ (encoder # None /\ encoder' # None
              /\ encoder'[1].frames > encoder[1].frames) =>
              /\ encoder'[1].frames = encoder[1].frames + 1
              /\ poll_inflight
              /\ \/ inflight[1].epoch = epoch /\ inflight[1].seq = encoder[1].frames
                 \/ inflight[1].epoch < epoch /\ encoder[1].frames = 0]_vars

\* Several frames were appended and the readback of the next one is ready.
C12_Witness ==
    /\ is_recording /\ encoder # None
    /\ encoder[1].frames >= 3
    /\ poll_inflight
    /\ inflight[1].epoch = epoch
    /\ inflight[1].seq = encoder[1].frames

\* C13: a successful start leaves the recorder Recording with a palette and an
\* encoder, frame_count 0 and no readback in flight, whatever came before.
C13_StartLeavesCleanRecorder ==
    [][HostStart =>
          /\ status' = Recording
          /\ palette'
          /\ encoder' # None
          /\ frame_count' = 0
          /\ inflight' = None]_vars

\* C14: the completion of an asynchronous save that belongs to a recording
\* since stopped, or followed by a new start, leaves the status as it is.
C14_StaleSaveHasNoEffect ==
    [][\A e \in saves :
          (saves' = saves \ {e} /\ (e < epoch \/ e \in stopped))
              => status' = status]_vars

\* C15: the accumulated output of the encoder never exceeds GIF_MAX_SIZE.
C15_OutputWithinCap ==
    encoder # None => encoder[1].len <= GIF_MAX_SIZE

\* The name that follows name: the version of a name ending in " v<digits>"
\* incremented, " v2" appended to any other name.
Bumped(name) ==
    LET P == {p \in 1..(Len(name) - 2) :
                 /\ name[p] = " "
                 /\ name[p + 1] = "v"
                 /\ \A i \in (p + 2)..Len(name) : IsDigit(name[i])}
    IN  IF P = {} THEN name \o <<" ", "v", "2">>
        ELSE LET p == CHOOSE q \in P : TRUE
             IN  SubSeq(name, 1, p - 1) \o <<" ", "v">>
                     \o Succ(StripZeros(SubSeq(name, p + 2, Len(name))))

\* C16: every clone made by clone_with_new_id carries the name that follows
\* its original's (version incremented, or " v2" appended), an id that no
\* earlier settings holds, and every other field of its original.
C16_VersionSuffixBumped ==
    /\ panicked # "attempt to add with overflow"
    /\ \A i \in 2..Len(settings) :
          /\ settings[i].name = Bumped(settings[i - 1].name)
          /\ \A j \in 1..(i - 1) : settings[i].id # settings[j].id
          /\ [settings[i] EXCEPT !.id = 0, !.name = <<>>]
                = [settings[i - 1] EXCEPT !.id = 0, !.name = <<>>]

\* C17: CropScale::apply crops the square of side
\* min(min(w,h), max(1, floor(min(w,h)/scale))) at (floor(xn*(w-side)),
\* floor(yn*(h-side))), the square lies inside the image, and the result is
\* sidelen by sidelen; x=-1, y=0, scale=2 on 400x200 crops (0,50)-(100,150).
C17_CropSquareInsideImage ==
    (crop # None /\ crop[1].out # None) =>
        LET c == crop[1]
            r == c.out[1]
            s == Max(c.self.scale, 8)
            side == Min(Min(c.w, c.h), Max(1, (Min(c.w, c.h) * 8) \div s))
        IN  /\ r.cs = side
            /\ r.x0 = ((clamp(c.self.x) + 8) * (c.w - side)) \div 16
            /\ r.y0 = ((clamp(c.self.y) + 8) * (c.h - side)) \div 16
            /\ r.x0 + r.cs <= c.w
            /\ r.y0 + r.cs <= c.h
            /\ r.dimensions = <<c.sidelen, c.sidelen>>
            /\ (/\ c.w = 400 /\ c.h = 200 /\ c.sidelen = 100
                /\ c.self = [x |-> -8, y |-> 0, scale |-> 16])
                  => (r.x0 = 0 /\ r.y0 = 50 /\ r.cs = 100)

\* C18: in a recording with GIF_MIN_FRAMES <= frame_count < GIF_MAX_FRAMES,
\* should_stop() is true only if the encoder of this recording has itself
\* reported that the size limit was reached.
C18_SizeSignalOfThisRecording ==
    (/\ is_recording
     /\ GIF_MIN_FRAMES <= frame_count
     /\ frame_count < GIF_MAX_FRAMES
     /\ ShouldStop) => overrun

\* C19: while the status is Recording, the encoder and the palette are both
\* present.
C19_RecordingHasEncoderAndPalette ==
    is_recording => (encoder # None /\ palette)

\* C20: whenever should_stop() is true for a recording, its encoder holds at
\* least GIF_MIN_FRAMES appended frames.
C20_FloorOverridesSizeBudget ==
    (is_recording /\ encoder # None /\ ShouldStop)
        => encoder[1].frames >= GIF_MIN_FRAMES

\* The size limit was reached, and should_stop() answers true on its account,
\* before GIF_MAX_FRAMES frames were appended.
C20_Witness ==
    /\ is_recording /\ encoder # None
    /\ overrun
    /\ ShouldStop
    /\ encoder[1].frames < GIF_MAX_FRAMES

\* C21: every recording terminates: with the host ticking and the driver
\* completing every readback successfully, a recording leads to should_stop()
\* answering true (or to the recording having ended on an error), whatever
\* the sizes of its frames.
C21_RecordingTerminates ==
    is_recording ~> (ShouldStop \/ ~is_recording)

====
